---- MODULE Spec2Model ----
(***************************************************************************)
(* vtkImageReader2 (IO/Image/vtkImageReader2.cxx): the file-identity       *)
(* setters, the data increments, the internal file name, the header size,  *)
(* the seek offset and the execution (ExecuteDataWithInformation and the   *)
(* row loop of vtkImageReader2Update) of the raw image reader.             *)
(*                                                                         *)
(* Representation.                                                         *)
(*  - A C string is a sequence of one-character strings; a char* field is  *)
(*    a record [null, s], NULL being the null pointer.                     *)
(*  - A vtkStringArray* is a record [id, vals]; id 0 is the null pointer   *)
(*    and two pointers are equal exactly when their ids are equal.         *)
(*  - An unsigned long is represented by the integer congruent to it       *)
(*    modulo 2^64 of least absolute value: a negative representative d     *)
(*    stands for the wrapped value 2^64 + d, and the cast (long) of the    *)
(*    value is the representative itself.  All magnitudes of the model     *)
(*    stay far below 2^31, so no other wrap-around occurs.                 *)
(*  - handles counts the streams that are open; File is the stream the     *)
(*    reader points to.                                                    *)
(***************************************************************************)
EXTENDS Integers, Sequences, FiniteSets, TLC

VARIABLES FileName, FilePrefix, FilePattern, FileNames, InternalFileName,
          DataExtent, DataIncrements, DataScalarType, NumberOfScalarComponents,
          HeaderSize, ManualHeaderSize, FileNameSliceOffset, FileNameSliceSpacing,
          FileLowerLeft, FileDimensionality, File, disk, last,
          handles, MemoryBuffer, MemoryBufferLength, AbortExecute, update, data

vars == <<FileName, FilePrefix, FilePattern, FileNames, InternalFileName,
          DataExtent, DataIncrements, DataScalarType, NumberOfScalarComponents,
          HeaderSize, ManualHeaderSize, FileNameSliceOffset, FileNameSliceSpacing,
          FileLowerLeft, FileDimensionality, File, disk, last,
          handles, MemoryBuffer, MemoryBufferLength, AbortExecute, update, data>>

namingVars == <<FileName, FilePrefix, FilePattern, FileNames>>

elementVars == <<DataScalarType, NumberOfScalarComponents>>

sliceVars == <<FileNameSliceOffset, FileNameSliceSpacing>>

layoutVars == <<FileLowerLeft, FileDimensionality>>

headerVars == <<HeaderSize, ManualHeaderSize>>

memoryVars == <<MemoryBuffer, MemoryBufferLength>>

\* what only the execution of the reader and its caller change
readVars == <<memoryVars, AbortExecute, update, data>>

(***************************************************************************)
(* Bounds of the model.                                                    *)
(***************************************************************************)
MaxListLen == 2

MaxCoord == 2

MaxSlice == 3

MaxComponents == 2

MaxHeader == 1

MaxRow == 2

(***************************************************************************)
(* Strings and pointers.                                                   *)
(***************************************************************************)
NULL == [null |-> TRUE, s |-> <<>>]

Str(s) == [null |-> FALSE, s |-> s]

strlen(p) == Len(p.s)

Min(a, b) == IF a <= b THEN a ELSE b

Max(a, b) == IF a >= b THEN a ELSE b

DigitChar(d) == <<"0", "1", "2", "3", "4", "5", "6", "7", "8", "9">>[d + 1]

RECURSIVE NatToStr(_)
NatToStr(n) == IF n < 10 THEN <<DigitChar(n)>>
               ELSE NatToStr(n \div 10) \o <<DigitChar(n % 10)>>

\* the conversion %d of snprintf
IntToStr(n) == IF n < 0 THEN <<"-">> \o NatToStr(0 - n) ELSE NatToStr(n)

\* an argument of snprintf: a char* or an int
SArg(s) == [kind |-> "s", s |-> s, d |-> 0]

DArg(d) == [kind |-> "d", s |-> <<>>, d |-> d]

\* the marker of a formatting whose behaviour is undefined (a conversion
\* without an argument of its type)
Undefined == <<"<undefined>">>

\* the output of snprintf for a format and its arguments, before truncation
RECURSIVE Format(_, _)
Format(fmt, args) ==
  IF fmt = <<>> THEN <<>>
  ELSE IF fmt[1] = "%" /\ Len(fmt) >= 2
       THEN IF fmt[2] = "%"
            THEN LET rest == Format(SubSeq(fmt, 3, Len(fmt)), args)
                 IN  IF rest = Undefined THEN Undefined ELSE <<"%">> \o rest
            ELSE IF fmt[2] \in {"s", "d"}
            THEN IF args = <<>> \/ args[1].kind # fmt[2]
                 THEN Undefined
                 ELSE LET rest == Format(SubSeq(fmt, 3, Len(fmt)), Tail(args))
                          out  == IF fmt[2] = "s" THEN args[1].s ELSE IntToStr(args[1].d)
                      IN  IF rest = Undefined THEN Undefined ELSE out \o rest
            ELSE Undefined
       ELSE IF fmt[1] = "%"
            THEN Undefined
            ELSE LET rest == Format(Tail(fmt), args)
                 IN  IF rest = Undefined THEN Undefined ELSE <<fmt[1]>> \o rest

\* what a buffer of a run-time error can hold: the names an undefined
\* formatting or an out-of-range read of the list may leave behind
GarbageNames == {<<>>, <<"?">>}

\* snprintf(buf, size, fmt, args...): at most size - 1 characters are stored
snprintf(size, fmt, args) ==
  LET out == Format(fmt, args)
  IN  IF out = Undefined THEN GarbageNames
      ELSE {SubSeq(out, 1, Min(Len(out), size - 1))}

(***************************************************************************)
(* The values the callers of the model pass.                               *)
(***************************************************************************)
DefaultPattern == <<"%", "s", ".", "%", "d">>

NumberPattern == <<"%", "d", ".", "r">>

NameA == <<"a">>

NameB == <<"b">>

PrefixP == <<"p">>

PrefixImg == <<"i", "m", "g">>

\* the vtkStringArray objects of the callers: object n holds n paths
ListPath(i) == <<"f">> \o NatToStr(i)

StringArray(n) == [id |-> n + 1, vals |-> [i \in 1..n |-> ListPath(i - 1)]]

NullArray == [id |-> 0, vals |-> <<>>]

StringArrays == {StringArray(n) : n \in 0..MaxListLen}

GetNumberOfValues(a) == Len(a.vals)

\* one axis of an extent: the pairs min <= max
AxisRanges == {r \in (0..MaxCoord) \X (0..MaxCoord) : r[1] <= r[2]}

Extents == {<<x[1], x[2], y[1], y[2], z[1], z[2]>> : x \in AxisRanges, y \in AxisRanges, z \in AxisRanges}

ZExtents == {e \in Extents : e[1] = 0 /\ e[2] = 0 /\ e[3] = 0 /\ e[4] = 0}

NoFile == [open |-> FALSE, path |-> <<>>, pos |-> 0, fail |-> FALSE]

\* the frame of vtkImageReader2Update and of ExecuteDataWithInformation, which
\* calls it: where the execution stands (pc), the locals of the loops, and
\* what the execution has done so far: the counts at which it has emitted a
\* progress event (signals), the number of streams it has opened (opened),
\* the number of rows it has read (rows), the number of rows read when the
\* caller raised AbortExecute (abortRows, -1 before), and how it has ended
\* (outcome: "returned" without an error event, "error" after one)
NoUpdate == [pc |-> "idle", outExtent |-> <<0, 0, 0, 0, 0, 0>>, streamRead |-> 0,
             count |-> 0, target |-> 1, idx1 |-> 0, idx2 |-> 0, outPtr1 |-> 0,
             outPtr2 |-> 0, signals |-> {}, opened |-> 0, rows |-> 0,
             abortRows |-> 0 - 1, validated |-> FALSE, outcome |-> "none"]

\* no execution has begun: no stream is open, the caller has not asked to
\* abort and there is no output
NotExecuting ==
  /\ handles = 0
  /\ AbortExecute = 0
  /\ update = NoUpdate
  /\ data = <<>>

\* the record of the last call: its name, its arguments, the state it found
\* and what it returned
NoCall == [op |-> "none", argNull |-> TRUE, same |-> FALSE, n |-> 0, idx |-> 0,
           i |-> 0, j |-> 0, k |-> 0,
           preName |-> NULL, prePrefix |-> NULL, prePattern |-> NULL, preNames |-> NullArray,
           preExtent |-> <<0, 0, 0, 0, 0, 0>>, preIncrements |-> <<1, 1, 1, 1>>,
           guard |-> FALSE, manual |-> FALSE, statOk |-> FALSE, size |-> 0,
           result |-> 0, seeked |-> FALSE, pos |-> 0, error |-> FALSE]

\* the record of a call named op, holding the state the call found
Call(op) == [NoCall EXCEPT !.op = op, !.preName = FileName, !.prePrefix = FilePrefix,
                           !.prePattern = FilePattern, !.preNames = FileNames,
                           !.preExtent = DataExtent, !.preIncrements = DataIncrements]

(***************************************************************************)
(* vtkImageReader2::vtkImageReader2                                        *)
(***************************************************************************)
Constructed ==
  /\ FilePrefix = NULL
  /\ FilePattern = Str(DefaultPattern)
  /\ File = NoFile
  /\ DataScalarType = 4
  /\ NumberOfScalarComponents = 1
  /\ DataExtent = <<0, 0, 0, 0, 0, 0>>
  /\ DataIncrements = <<1, 1, 1, 1>>
  /\ FileNames = NullArray
  /\ FileName = NULL
  /\ InternalFileName = NULL
  /\ HeaderSize = 0
  /\ ManualHeaderSize = 0
  /\ FileNameSliceOffset = 0
  /\ FileNameSliceSpacing = 1
  /\ FileLowerLeft = 0
  /\ FileDimensionality = 2
  /\ MemoryBuffer = 0
  /\ MemoryBufferLength = 0
  /\ NotExecuting
  /\ last = NoCall

(***************************************************************************)
(* The naming setters.                                                     *)
(***************************************************************************)
SetFileName(name) ==
  /\ last' = [Call("SetFileName") EXCEPT !.argNull = name.null, !.same = (name = FileName)]
  /\ IF (~FileName.null /\ ~name.null /\ FileName.s = name.s) \/ (name.null /\ FileName.null)
     THEN UNCHANGED namingVars
     ELSE IF ~name.null
          THEN /\ FileName' = name
               /\ FilePrefix' = NULL
               /\ FileNames' = NullArray
               /\ UNCHANGED FilePattern
          ELSE /\ FileName' = NULL
               /\ UNCHANGED <<FilePrefix, FilePattern, FileNames>>
  /\ UNCHANGED <<InternalFileName, DataExtent, DataIncrements, elementVars, headerVars,
                 sliceVars, layoutVars, File, handles, disk, readVars>>

\* SetFileNames without the release of FileName
SetFileNames_KeepsFileName(filenames) ==
  /\ last' = [Call("SetFileNames") EXCEPT !.argNull = (filenames.id = 0),
                                        !.same = (filenames.id = FileNames.id),
                                        !.n = GetNumberOfValues(filenames)]
  /\ IF filenames.id = FileNames.id
     THEN UNCHANGED <<namingVars, DataExtent>>
     ELSE IF filenames.id # 0
          THEN /\ FileNames' = filenames
               /\ DataExtent' = IF GetNumberOfValues(filenames) > 0
                                THEN [DataExtent EXCEPT ![5] = 0,
                                                        ![6] = GetNumberOfValues(filenames) - 1]
                                ELSE DataExtent
               /\ FilePrefix' = NULL
               /\ UNCHANGED <<FileName, FilePattern>>
          ELSE /\ FileNames' = NullArray
               /\ UNCHANGED <<FileName, FilePrefix, FilePattern, DataExtent>>
  /\ UNCHANGED <<InternalFileName, DataIncrements, elementVars, headerVars,
                 sliceVars, layoutVars, File, handles, disk, readVars>>

\* SetFileNames with the last slice index taken for the number of values
SetFileNames_CountAsMax(filenames) ==
  /\ last' = [Call("SetFileNames") EXCEPT !.argNull = (filenames.id = 0),
                                        !.same = (filenames.id = FileNames.id),
                                        !.n = GetNumberOfValues(filenames)]
  /\ IF filenames.id = FileNames.id
     THEN UNCHANGED <<namingVars, DataExtent>>
     ELSE IF filenames.id # 0
          THEN /\ FileNames' = filenames
               /\ DataExtent' = IF GetNumberOfValues(filenames) > 0
                                THEN [DataExtent EXCEPT ![5] = 0,
                                                        ![6] = GetNumberOfValues(filenames)]
                                ELSE DataExtent
               /\ FilePrefix' = NULL
               /\ FileName' = NULL
               /\ UNCHANGED FilePattern
          ELSE /\ FileNames' = NullArray
               /\ UNCHANGED <<FileName, FilePrefix, FilePattern, DataExtent>>
  /\ UNCHANGED <<InternalFileName, DataIncrements, elementVars, headerVars,
                 sliceVars, layoutVars, File, handles, disk, readVars>>

SetFileNames(filenames) ==
  /\ last' = [Call("SetFileNames") EXCEPT !.argNull = (filenames.id = 0),
                                        !.same = (filenames.id = FileNames.id),
                                        !.n = GetNumberOfValues(filenames)]
  /\ IF filenames.id = FileNames.id
     THEN UNCHANGED <<namingVars, DataExtent>>
     ELSE IF filenames.id # 0
          THEN /\ FileNames' = filenames
               /\ DataExtent' = IF GetNumberOfValues(filenames) > 0
                                THEN [DataExtent EXCEPT ![5] = 0,
                                                        ![6] = GetNumberOfValues(filenames) - 1]
                                ELSE DataExtent
               /\ FilePrefix' = NULL
               /\ FileName' = NULL
               /\ UNCHANGED FilePattern
          ELSE /\ FileNames' = NullArray
               /\ UNCHANGED <<FileName, FilePrefix, FilePattern, DataExtent>>
  /\ UNCHANGED <<InternalFileName, DataIncrements, elementVars, headerVars,
                 sliceVars, layoutVars, File, handles, disk, readVars>>

SetFilePrefix(prefix) ==
  /\ last' = [Call("SetFilePrefix") EXCEPT !.argNull = prefix.null, !.same = (prefix = FilePrefix)]
  /\ IF (~FilePrefix.null /\ ~prefix.null /\ FilePrefix.s = prefix.s)
          \/ (prefix.null /\ FilePrefix.null)
     THEN UNCHANGED namingVars
     ELSE IF ~prefix.null
          THEN /\ FilePrefix' = prefix
               /\ FileName' = NULL
               /\ FileNames' = NullArray
               /\ UNCHANGED FilePattern
          ELSE /\ FilePrefix' = NULL
               /\ UNCHANGED <<FileName, FilePattern, FileNames>>
  /\ UNCHANGED <<InternalFileName, DataExtent, DataIncrements, elementVars, headerVars,
                 sliceVars, layoutVars, File, handles, disk, readVars>>

\* SetFilePattern without the release of FileName
SetFilePattern_KeepsFileName(pattern) ==
  /\ last' = [Call("SetFilePattern") EXCEPT !.argNull = pattern.null,
                                          !.same = (pattern = FilePattern)]
  /\ IF (~FilePattern.null /\ ~pattern.null /\ FilePattern.s = pattern.s)
          \/ (pattern.null /\ FilePattern.null)
     THEN UNCHANGED namingVars
     ELSE IF ~pattern.null
          THEN /\ FilePattern' = pattern
               /\ FileNames' = NullArray
               /\ UNCHANGED <<FileName, FilePrefix>>
          ELSE /\ FilePattern' = NULL
               /\ UNCHANGED <<FileName, FilePrefix, FileNames>>
  /\ UNCHANGED <<InternalFileName, DataExtent, DataIncrements, elementVars, headerVars,
                 sliceVars, layoutVars, File, handles, disk, readVars>>

SetFilePattern(pattern) ==
  /\ last' = [Call("SetFilePattern") EXCEPT !.argNull = pattern.null,
                                          !.same = (pattern = FilePattern)]
  /\ IF (~FilePattern.null /\ ~pattern.null /\ FilePattern.s = pattern.s)
          \/ (pattern.null /\ FilePattern.null)
     THEN UNCHANGED namingVars
     ELSE IF ~pattern.null
          THEN /\ FilePattern' = pattern
               /\ FileName' = NULL
               /\ FileNames' = NullArray
               /\ UNCHANGED FilePrefix
          ELSE /\ FilePattern' = NULL
               /\ UNCHANGED <<FileName, FilePrefix, FileNames>>
  /\ UNCHANGED <<InternalFileName, DataExtent, DataIncrements, elementVars, headerVars,
                 sliceVars, layoutVars, File, handles, disk, readVars>>

\* vtkSetVector6Macro(DataExtent, int) of the class declaration
SetDataExtent(extent) ==
  /\ DataExtent' = extent
  /\ last' = [Call("SetDataExtent") EXCEPT !.argNull = FALSE, !.same = (extent = DataExtent)]
  /\ UNCHANGED <<namingVars, InternalFileName, DataIncrements, elementVars, headerVars,
                 sliceVars, layoutVars, File, handles, disk, readVars>>

(***************************************************************************)
(* The naming specification: a constructed reader and every sequence of    *)
(* the four naming setters, the Z extent being changed in between.         *)
(***************************************************************************)
NameArgs == {NULL, Str(NameA), Str(NameB)}

PrefixArgs == {NULL, Str(PrefixP), Str(PrefixImg)}

PatternArgs == {NULL, Str(DefaultPattern), Str(NumberPattern)}

ArrayArgs == {NullArray} \cup StringArrays

NoDisk == [p \in {} |-> 0]

InitNaming == Constructed /\ disk = NoDisk

NextNaming ==
  \/ \E name \in NameArgs : SetFileName(name)
  \/ \E prefix \in PrefixArgs : SetFilePrefix(prefix)
  \/ \E pattern \in PatternArgs : SetFilePattern(pattern)
  \/ \E filenames \in ArrayArgs : SetFileNames(filenames)
  \/ \E extent \in ZExtents : SetDataExtent(extent)

SpecNaming == InitNaming /\ [][NextNaming]_vars

(***************************************************************************)
(* The element layout.                                                     *)
(***************************************************************************)
VTK_SHORT == 4

\* the scalar types vtkTemplateMacro dispatches on, by their type tag: char,
\* unsigned char, short, unsigned short, int, unsigned int, long, unsigned
\* long, float, double, vtkIdType, signed char, long long, unsigned long long
TemplateTypes == {2, 3, 4, 5, 6, 7, 8, 9, 10, 11, 12, 15, 16, 17}

\* type tags without a case in vtkTemplateMacro: void, bit, string, opaque
OtherTypes == {0, 1, 13, 14}

\* sizeof(T) of the type with tag t (LP64 build with 64-bit ids)
vtkImageReader2GetSize(t) ==
  CASE t \in {2, 3, 15} -> 1
    [] t \in {4, 5} -> 2
    [] t \in {6, 7, 10} -> 4
    [] t \in {8, 9, 11, 12, 16, 17} -> 8

AxisSize(extent, axis) == extent[2 * axis] - extent[2 * axis - 1] + 1

\* the increments with a scalar type that has no case taken as one byte
ComputedIncrements_DefaultByte(type, components, extent, old) ==
  LET length0 == (IF type \in TemplateTypes THEN vtkImageReader2GetSize(type) ELSE 1)
                   * components
      length1 == length0 * AxisSize(extent, 1)
      length2 == length1 * AxisSize(extent, 2)
      length3 == length2 * AxisSize(extent, 3)
  IN  <<length0, length1, length2, length3>>

\* the increments with every axis one sample short
ComputedIncrements_NoPlusOne(type, components, extent, old) ==
  IF type \notin TemplateTypes THEN old
  ELSE LET length0 == vtkImageReader2GetSize(type) * components
           length1 == length0 * (extent[2] - extent[1])
           length2 == length1 * (extent[4] - extent[3])
           length3 == length2 * (extent[6] - extent[5])
       IN  <<length0, length1, length2, length3>>

\* the value ComputeDataIncrements leaves in DataIncrements (old when the
\* scalar type has no case)
ComputedIncrements(type, components, extent, old) ==
  IF type \notin TemplateTypes THEN old
  ELSE LET length0 == vtkImageReader2GetSize(type) * components
           length1 == length0 * AxisSize(extent, 1)
           length2 == length1 * AxisSize(extent, 2)
           length3 == length2 * AxisSize(extent, 3)
       IN  <<length0, length1, length2, length3>>

NewIncrements ==
  ComputedIncrements(DataScalarType, NumberOfScalarComponents, DataExtent, DataIncrements)

ComputeDataIncrements ==
  /\ DataIncrements' = NewIncrements
  /\ last' = [Call("ComputeDataIncrements") EXCEPT
                !.error = (DataScalarType \notin TemplateTypes)]
  /\ UNCHANGED <<namingVars, InternalFileName, DataExtent, elementVars, headerVars,
                 sliceVars, layoutVars, File, handles, disk, readVars>>

(***************************************************************************)
(* The increments specification: a reader whose scalar type, component     *)
(* count and extent have been set, on which ComputeDataIncrements runs.    *)
(***************************************************************************)
Configured ==
  /\ FilePrefix = NULL
  /\ FilePattern = Str(DefaultPattern)
  /\ File = NoFile
  /\ DataIncrements = <<1, 1, 1, 1>>
  /\ FileNames = NullArray
  /\ FileName = NULL
  /\ InternalFileName = NULL
  /\ HeaderSize = 0
  /\ ManualHeaderSize = 0
  /\ FileNameSliceOffset = 0
  /\ FileNameSliceSpacing = 1
  /\ FileLowerLeft = 0
  /\ FileDimensionality = 2
  /\ MemoryBuffer = 0
  /\ MemoryBufferLength = 0
  /\ NotExecuting
  /\ last = NoCall
  /\ disk = NoDisk

InitIncrements ==
  /\ Configured
  /\ DataScalarType \in TemplateTypes \cup OtherTypes
  /\ NumberOfScalarComponents \in 1..MaxComponents
  /\ DataExtent \in Extents

NextIncrements == ComputeDataIncrements

SpecIncrements == InitIncrements /\ [][NextIncrements]_vars

(***************************************************************************)
(* The internal file name.                                                 *)
(***************************************************************************)
\* vtkSetMacro(FileNameSliceOffset, int) of the class declaration
SetFileNameSliceOffset(offset) ==
  /\ FileNameSliceOffset' = offset
  /\ last' = Call("SetFileNameSliceOffset")
  /\ UNCHANGED <<namingVars, InternalFileName, DataExtent, DataIncrements, elementVars,
                 headerVars, FileNameSliceSpacing, layoutVars, File, handles, disk, readVars>>

\* vtkSetMacro(FileNameSliceSpacing, int) of the class declaration
SetFileNameSliceSpacing(spacing) ==
  /\ FileNameSliceSpacing' = spacing
  /\ last' = Call("SetFileNameSliceSpacing")
  /\ UNCHANGED <<namingVars, InternalFileName, DataExtent, DataIncrements, elementVars,
                 headerVars, FileNameSliceOffset, layoutVars, File, handles, disk, readVars>>

\* the slice number without the slice spacing
SliceNumber_NoSpacing(slice) == slice + FileNameSliceOffset

SliceNumber(slice) == slice * FileNameSliceSpacing + FileNameSliceOffset

\* the scan of the pattern for the two characters % s
HasPercentS(pattern) ==
  \E i \in 1..(Len(pattern) - 1) : pattern[i] = "%" /\ pattern[i + 1] = "s"

\* the values ComputeInternalFileName(slice) can leave in InternalFileName;
\* reading the list outside its bounds is undefined
InternalFileNames(slice) ==
  IF FileName = NULL /\ FilePattern = NULL /\ FileNames = NullArray
  THEN {NULL}
  ELSE IF FileNames # NullArray
  THEN IF slice \in 0..(GetNumberOfValues(FileNames) - 1)
       THEN LET filename == FileNames.vals[slice + 1]
            IN  {Str(n) : n \in snprintf(Len(filename) + 10, <<"%", "s">>, <<SArg(filename)>>)}
       ELSE {Str(n) : n \in GarbageNames}
  ELSE IF FileName # NULL
  THEN {Str(n) : n \in snprintf(strlen(FileName) + 10, <<"%", "s">>, <<SArg(FileName.s)>>)}
  ELSE LET slicenum == SliceNumber(slice)
       IN  IF FilePrefix # NULL /\ FilePattern # NULL
           THEN {Str(n) : n \in snprintf(strlen(FilePrefix) + strlen(FilePattern) + 10,
                                         FilePattern.s,
                                         <<SArg(FilePrefix.s), DArg(slicenum)>>)}
           ELSE IF FilePattern # NULL
           THEN IF HasPercentS(FilePattern.s)
                THEN {Str(n) : n \in snprintf(strlen(FilePattern) + 10, FilePattern.s,
                                              <<SArg(<<>>), DArg(slicenum)>>)}
                ELSE {Str(n) : n \in snprintf(strlen(FilePattern) + 10, FilePattern.s,
                                              <<DArg(slicenum)>>)}
           ELSE {NULL}

ComputeInternalFileName(slice) ==
  /\ \E name \in InternalFileNames(slice) : InternalFileName' = name
  /\ last' = [Call("ComputeInternalFileName") EXCEPT !.idx = slice]
  /\ UNCHANGED <<namingVars, DataExtent, DataIncrements, elementVars, headerVars,
                 sliceVars, layoutVars, File, handles, disk, readVars>>

(***************************************************************************)
(* The resolution specification: a constructed reader, its naming setters, *)
(* the slice offset and spacing, and the resolution of a slice index.      *)
(***************************************************************************)
SliceOffsets == {0, 100}

SliceSpacings == {1, 2}

InitResolve == Constructed /\ disk = NoDisk

NextResolve ==
  \/ \E name \in {NULL, Str(NameA)} : SetFileName(name)
  \/ \E prefix \in PrefixArgs : SetFilePrefix(prefix)
  \/ \E pattern \in PatternArgs : SetFilePattern(pattern)
  \/ \E filenames \in ArrayArgs : SetFileNames(filenames)
  \/ \E offset \in SliceOffsets : SetFileNameSliceOffset(offset)
  \/ \E spacing \in SliceSpacings : SetFileNameSliceSpacing(spacing)
  \/ \E slice \in 0..MaxSlice : ComputeInternalFileName(slice)

SpecResolve == InitResolve /\ [][NextResolve]_vars

(***************************************************************************)
(* The header size, the file handle and the seek offset.                   *)
(***************************************************************************)
SetHeaderSize(size) ==
  /\ HeaderSize' = size
  /\ ManualHeaderSize' = 1
  /\ last' = [Call("SetHeaderSize") EXCEPT !.n = size]
  /\ UNCHANGED <<namingVars, InternalFileName, DataExtent, DataIncrements, elementVars,
                 sliceVars, layoutVars, File, handles, disk, readVars>>

\* vtkSetMacro(FileLowerLeft, vtkTypeBool) of the class declaration
SetFileLowerLeft(flag) ==
  /\ FileLowerLeft' = flag
  /\ last' = Call("SetFileLowerLeft")
  /\ UNCHANGED <<namingVars, InternalFileName, DataExtent, DataIncrements, elementVars,
                 headerVars, sliceVars, FileDimensionality, File, handles, disk, readVars>>

\* vtkSetMacro(FileDimensionality, int) of the class declaration
SetFileDimensionality(dim) ==
  /\ FileDimensionality' = dim
  /\ last' = Call("SetFileDimensionality")
  /\ UNCHANGED <<namingVars, InternalFileName, DataExtent, DataIncrements, elementVars,
                 headerVars, sliceVars, FileLowerLeft, File, handles, disk, readVars>>

SetDataScalarType(type) ==
  /\ DataScalarType' = type
  /\ last' = Call("SetDataScalarType")
  /\ UNCHANGED <<namingVars, InternalFileName, DataExtent, DataIncrements,
                 NumberOfScalarComponents, headerVars, sliceVars, layoutVars, File, handles, disk, readVars>>

\* vtksys::SystemTools::Stat succeeds on the paths of the disk
StatOk(name) == name # NULL /\ name.s \in DOMAIN disk

\* the number of open streams once CloseFile has deleted the one of File
HandlesAfterClose == IF File.open THEN handles - 1 ELSE handles

CloseFile ==
  /\ File' = NoFile
  /\ handles' = HandlesAfterClose
  /\ last' = Call("CloseFile")
  /\ UNCHANGED <<namingVars, InternalFileName, DataExtent, DataIncrements, elementVars,
                 headerVars, sliceVars, layoutVars, disk, readVars>>

\* the first test of OpenFile
OpenGuard == FileName # NULL \/ FilePattern # NULL \/ FileNames # NullArray

\* what OpenFile returns, name being the internal file name
OpenResult(name) == IF OpenGuard /\ StatOk(name) THEN 1 ELSE 0

\* the stream OpenFile leaves in File
OpenedFile(name) ==
  IF ~OpenGuard THEN File
  ELSE IF StatOk(name)
       THEN [open |-> TRUE, path |-> name.s, pos |-> 0, fail |-> FALSE]
       ELSE NoFile

\* the open streams of an OpenFile that does not close the one of File first
HandlesAfterOpen_NoClose(name) ==
  IF OpenGuard /\ StatOk(name) THEN handles + 1 ELSE handles

\* the number of open streams after OpenFile: it calls CloseFile, then
\* creates a stream when the file exists
HandlesAfterOpen(name) ==
  IF ~OpenGuard THEN handles
  ELSE HandlesAfterClose + (IF StatOk(name) THEN 1 ELSE 0)

OpenFile ==
  /\ File' = OpenedFile(InternalFileName)
  /\ handles' = HandlesAfterOpen(InternalFileName)
  /\ last' = [Call("OpenFile") EXCEPT
                !.guard = OpenGuard,
                !.statOk = (OpenGuard /\ StatOk(InternalFileName)),
                !.result = OpenResult(InternalFileName)]
  /\ UNCHANGED <<namingVars, InternalFileName, DataExtent, DataIncrements, elementVars,
                 headerVars, sliceVars, layoutVars, disk, readVars>>

\* the first test of GetHeaderSize(idx)
HeaderGuard == FileName # NULL \/ FilePattern # NULL

\* GetHeaderSize(idx) probes the file when no header size was set by hand
HeaderProbed == HeaderGuard /\ ManualHeaderSize = 0

\* the value GetHeaderSize(idx) returns, name being the internal file name
\* it has computed for idx; the difference is cast to int and returned as
\* unsigned long, so that a negative one stands for its wrapped value
HeaderSizeValue(name) ==
  IF ~HeaderGuard THEN 0
  ELSE IF ManualHeaderSize = 0 /\ StatOk(name)
       THEN disk[name.s] - NewIncrements[FileDimensionality + 1]
       ELSE HeaderSize

\* what GetHeaderSize(idx) leaves behind, name being the internal file name
\* it has computed
HeaderSizeEffects(name) ==
  IF HeaderProbed
  THEN DataIncrements' = NewIncrements /\ InternalFileName' = name
  ELSE UNCHANGED <<DataIncrements, InternalFileName>>

\* the names GetHeaderSize(idx) can compute
HeaderNames(idx) == IF HeaderProbed THEN InternalFileNames(idx) ELSE {InternalFileName}

GetHeaderSize(idx) ==
  /\ \E name \in HeaderNames(idx) :
        /\ HeaderSizeEffects(name)
        /\ last' = [Call("GetHeaderSize") EXCEPT
                      !.idx = idx, !.guard = HeaderGuard, !.manual = (ManualHeaderSize # 0),
                      !.statOk = (HeaderProbed /\ StatOk(name)),
                      !.size = IF HeaderProbed /\ StatOk(name) THEN disk[name.s] ELSE 0,
                      !.result = HeaderSizeValue(name)]
  /\ UNCHANGED <<namingVars, DataExtent, elementVars, headerVars, sliceVars, layoutVars,
                 File, handles, disk, readVars>>

\* the offset with the slice term in every dimensionality
SeekOffset_AlwaysSlice(i, j, k, extent, increments, lowerLeft, dim, header) ==
  (i - extent[1]) * increments[1]
    + (IF lowerLeft # 0
       THEN (j - extent[3]) * increments[2]
       ELSE (extent[4] - extent[3] - j) * increments[2])
    + (k - extent[5]) * increments[3]
    + header

\* streamStart of SeekFile(i, j, k)
SeekOffset(i, j, k, extent, increments, lowerLeft, dim, header) ==
  (i - extent[1]) * increments[1]
    + (IF lowerLeft # 0
       THEN (j - extent[3]) * increments[2]
       ELSE (extent[4] - extent[3] - j) * increments[2])
    + (IF dim >= 3 THEN (k - extent[5]) * increments[3] ELSE 0)
    + header

\* streamStart of SeekFile(i, j, k), name being the internal file name that
\* GetHeaderSize(k) has computed
StreamStart(i, j, k, name) ==
  SeekOffset(i, j, k, DataExtent, DataIncrements, FileLowerLeft, FileDimensionality,
             HeaderSizeValue(name))

\* a seek that moves to the start of the file when the offset is negative
SoughtFile_Clamped(streamStart) ==
  IF ~File.open THEN File
  ELSE IF File.fail THEN File
  ELSE [File EXCEPT !.pos = Max(0, streamStart)]

\* the stream after File->seekg((long)streamStart, ios::beg): seekg does
\* nothing on a stream that has failed, fails on a negative offset and moves
\* to any other one
SoughtFile(streamStart) ==
  IF ~File.open THEN File
  ELSE IF File.fail \/ streamStart < 0
  THEN [File EXCEPT !.fail = TRUE]
  ELSE [File EXCEPT !.pos = streamStart]

\* the record of the call SeekFile(i, j, k)
SeekCall(i, j, k, name) ==
  [Call("SeekFile") EXCEPT
     !.i = i, !.j = j, !.k = k, !.guard = HeaderGuard,
     !.manual = (ManualHeaderSize # 0),
     !.statOk = (HeaderProbed /\ StatOk(name)),
     !.size = IF HeaderProbed /\ StatOk(name) THEN disk[name.s] ELSE 0,
     !.result = HeaderSizeValue(name),
     !.seeked = File.open, !.pos = StreamStart(i, j, k, name),
     !.error = (~File.open \/ SoughtFile(StreamStart(i, j, k, name)).fail)]

SeekFile(i, j, k) ==
  /\ \E name \in HeaderNames(k) :
        /\ HeaderSizeEffects(name)
        /\ File' = SoughtFile(StreamStart(i, j, k, name))
        /\ last' = SeekCall(i, j, k, name)
  /\ UNCHANGED <<namingVars, DataExtent, elementVars, headerVars, sliceVars, layoutVars,
                 handles, disk, readVars>>

(***************************************************************************)
(* The files of the disk, by path, with their sizes in bytes: the file of  *)
(* the single-file reader, slice 0 of the series p and entry 0 of the      *)
(* lists.  The other slices of the series and entries of the lists are     *)
(* missing.                                                                *)
(***************************************************************************)
ReaderDisk == (NameA :> 1) @@ ((PrefixP \o <<".", "0">>) :> 9) @@ (ListPath(0) :> 9)

(***************************************************************************)
(* The header specification: a constructed reader, its naming setters, its *)
(* extent, scalar type, dimensionality and header size setters, and the    *)
(* query of the header size of a slice.                                    *)
(***************************************************************************)
HeaderExtents == {e \in Extents : e[1] = 0 /\ e[2] = 0 /\ e[3] = 0 /\ e[5] = 0 /\ e[6] = 0}

InitHeader == Constructed /\ disk = ReaderDisk

NextHeader ==
  \/ \E name \in {Str(NameA)} : SetFileName(name)
  \/ \E prefix \in {Str(PrefixP)} : SetFilePrefix(prefix)
  \/ \E pattern \in {NULL, Str(DefaultPattern)} : SetFilePattern(pattern)
  \/ \E filenames \in {StringArray(1)} : SetFileNames(filenames)
  \/ \E extent \in HeaderExtents : SetDataExtent(extent)
  \/ \E type \in {3, VTK_SHORT} : SetDataScalarType(type)
  \/ \E size \in 0..MaxHeader : SetHeaderSize(size)
  \/ \E dim \in {2, 3} : SetFileDimensionality(dim)
  \/ \E idx \in 0..1 : GetHeaderSize(idx)

SpecHeader == InitHeader /\ [][NextHeader]_vars

(***************************************************************************)
(* The seek specification: a reader configured by its setters (naming,     *)
(* extent, row orientation, dimensionality, header size), on which the     *)
(* increments and the internal file name are computed, the file is opened  *)
(* and closed, and rows of the extent are sought.                          *)
(***************************************************************************)
RowRanges == {r \in (0..MaxRow) \X (0..MaxRow) : r[1] <= r[2]}

SeekExtents ==
  {<<x[1], x[2], y[1], y[2], z[1], z[2]>> :
     x \in {<<0, 1>>, <<1, 2>>}, y \in RowRanges, z \in {<<0, 1>>, <<1, 2>>}}

SeekNamings ==
  {<<Str(NameA), NULL, NullArray>>,
   <<NULL, Str(PrefixP), NullArray>>,
   <<NULL, NULL, StringArray(MaxListLen)>>}

InitSeek ==
  /\ File = NoFile
  /\ DataScalarType = VTK_SHORT
  /\ NumberOfScalarComponents = 1
  /\ DataIncrements = <<1, 1, 1, 1>>
  /\ InternalFileName = NULL
  /\ FileNameSliceOffset = 0
  /\ FileNameSliceSpacing = 1
  /\ MemoryBuffer = 0
  /\ MemoryBufferLength = 0
  /\ NotExecuting
  /\ last = NoCall
  /\ disk = ReaderDisk
  /\ DataExtent \in SeekExtents
  /\ \E naming \in SeekNamings :
        FileName = naming[1] /\ FilePrefix = naming[2] /\ FileNames = naming[3]
  /\ FilePattern = Str(DefaultPattern)
  /\ FileLowerLeft \in {0, 1}
  /\ FileDimensionality \in {2, 3}
  /\ \/ ManualHeaderSize = 0 /\ HeaderSize = 0
     \/ ManualHeaderSize = 1 /\ HeaderSize \in 0..MaxHeader

NextSeek ==
  \/ ComputeDataIncrements
  \/ \E slice \in 0..1 : ComputeInternalFileName(slice)
  \/ OpenFile
  \/ CloseFile
  \/ \E i \in DataExtent[1]..DataExtent[2], j \in DataExtent[3]..DataExtent[4],
        k \in DataExtent[5]..DataExtent[6] : SeekFile(i, j, k)

SpecSeek == InitSeek /\ [][NextSeek]_vars

(***************************************************************************)
(* The execution of the reader: ExecuteDataWithInformation and the loops   *)
(* of vtkImageReader2Update, one step per test of a loop, so that the      *)
(* caller can raise AbortExecute between two steps, as an observer of the  *)
(* progress event or another thread does.  The output is one entry per     *)
(* row of the requested extent, slice after slice: where the bytes of the  *)
(* row come from (the path of the stream and the offset of the first       *)
(* byte) and how many were read.  The requested extent is the data extent. *)
(* The swap of the bytes of a row is left out: it does not move a row.     *)
(***************************************************************************)
Untouched == [path |-> <<>>, pos |-> 0, bytes |-> 0]

\* the rows of an extent
RowsOf(extent) == AxisSize(extent, 2) * AxisSize(extent, 3)

\* the output of AllocateOutputData
AllocatedData(extent) == [r \in 1..RowsOf(extent) |-> Untouched]

\* target of vtkImageReader2Update with the wrong divisor
ProgressTarget_Hundredth(outExtent) == RowsOf(outExtent) \div 100 + 1

\* target of vtkImageReader2Update: the rows between two progress events
ProgressTarget(outExtent) == RowsOf(outExtent) \div 50 + 1

\* the first test of ExecuteDataWithInformation
ExecuteGuard == FileName # NULL \/ FilePattern # NULL

\* the frame of vtkImageReader2Update when it reaches its loops
BegunUpdate ==
  [NoUpdate EXCEPT
     !.pc = "slice",
     !.outExtent = DataExtent,
     !.streamRead = AxisSize(DataExtent, 1) * NumberOfScalarComponents
                      * vtkImageReader2GetSize(DataScalarType),
     !.target = ProgressTarget(DataExtent),
     !.idx2 = DataExtent[5],
     !.abortRows = IF AbortExecute # 0 THEN 0 ELSE 0 - 1,
     !.validated = TRUE]

\* the frame of an execution that has ended
Ended(frame, outcome) == [frame EXCEPT !.pc = "done", !.outcome = outcome]

\* ComputeInternalFileName(slice) followed by OpenFile, as the update calls
\* them: the frame is next when the file is open, and the update returns
\* when it is not
OpenSlice(slice, frame, next) ==
  \E name \in InternalFileNames(slice) :
     /\ InternalFileName' = name
     /\ File' = OpenedFile(name)
     /\ handles' = HandlesAfterOpen(name)
     /\ update' = IF OpenResult(name) = 1
                  THEN [next EXCEPT !.opened = frame.opened + 1]
                  ELSE Ended(frame, "error")

ExecuteDataWithInformation ==
  /\ update.pc \in {"idle", "done"}
  /\ data' = AllocatedData(DataExtent)
  /\ IF ~ExecuteGuard
     THEN /\ update' = Ended([NoUpdate EXCEPT !.outExtent = DataExtent], "error")
          /\ UNCHANGED <<DataIncrements, InternalFileName, File, handles>>
     ELSE /\ DataIncrements' = NewIncrements
          /\ IF DataScalarType \notin TemplateTypes
             THEN /\ update' = Ended([NoUpdate EXCEPT !.outExtent = DataExtent,
                                                      !.validated = TRUE], "error")
                  /\ UNCHANGED <<InternalFileName, File, handles>>
             ELSE IF FileDimensionality = 3
                  THEN OpenSlice(0, BegunUpdate, BegunUpdate)
                  ELSE /\ update' = BegunUpdate
                       /\ UNCHANGED <<InternalFileName, File, handles>>
  /\ last' = [Call("ExecuteDataWithInformation") EXCEPT
                !.guard = ExecuteGuard,
                !.error = (~ExecuteGuard \/ DataScalarType \notin TemplateTypes)]
  /\ UNCHANGED <<namingVars, DataExtent, elementVars, headerVars, sliceVars, layoutVars,
                 disk, memoryVars, AbortExecute>>

\* the test of the loop over the slices and, in a file of dimensionality 2,
\* the opening of the file of the slice
vtkImageReader2UpdateSlice ==
  /\ update.pc = "slice"
  /\ LET row == [update EXCEPT !.pc = "row", !.idx1 = update.outExtent[3],
                               !.outPtr1 = update.outPtr2]
     IN  IF update.idx2 > update.outExtent[6]
         THEN /\ update' = Ended(update, "returned")
              /\ UNCHANGED <<InternalFileName, File, handles>>
         ELSE IF FileDimensionality = 2
              THEN OpenSlice(update.idx2, update, row)
              ELSE /\ update' = row
                   /\ UNCHANGED <<InternalFileName, File, handles>>
  /\ last' = Call("vtkImageReader2Update")
  /\ UNCHANGED <<namingVars, DataExtent, DataIncrements, elementVars, headerVars,
                 sliceVars, layoutVars, disk, memoryVars, AbortExecute, data>>

\* the test of the loop over the rows of a slice, and the progress event of
\* the row
vtkImageReader2UpdateRow ==
  /\ update.pc = "row"
  /\ update' =
       IF AbortExecute # 0 \/ update.idx1 > update.outExtent[4]
       THEN [update EXCEPT !.pc = "slice", !.idx2 = @ + 1,
                           !.outPtr2 = @ + AxisSize(update.outExtent, 2)]
       ELSE [update EXCEPT !.pc = "read", !.count = @ + 1,
                           !.signals = IF update.count % update.target = 0
                                       THEN @ \cup {update.count} ELSE @]
  /\ last' = Call("vtkImageReader2Update")
  /\ UNCHANGED <<namingVars, InternalFileName, DataExtent, DataIncrements, elementVars,
                 headerVars, sliceVars, layoutVars, File, handles, disk, memoryVars,
                 AbortExecute, data>>

\* the bytes that read(outPtr1, streamRead) gets from a stream
BytesRead(file, streamRead) ==
  IF file.open /\ ~file.fail
  THEN Max(0, Min(streamRead, disk[file.path] - file.pos))
  ELSE 0

\* SeekFile(outExtent[0], idx1, idx2) and the read of the row
vtkImageReader2UpdateRead ==
  /\ update.pc = "read"
  /\ \E name \in HeaderNames(update.idx2) :
        LET sought == SoughtFile(StreamStart(update.outExtent[1], update.idx1,
                                             update.idx2, name))
            bytes  == BytesRead(sought, update.streamRead)
        IN  /\ HeaderSizeEffects(name)
            /\ last' = SeekCall(update.outExtent[1], update.idx1, update.idx2, name)
            /\ data' = IF bytes > 0
                       THEN [data EXCEPT ![update.outPtr1 + 1] =
                               [path |-> sought.path, pos |-> sought.pos, bytes |-> bytes]]
                       ELSE data
            /\ IF bytes = update.streamRead
               THEN /\ File' = [sought EXCEPT !.pos = @ + bytes]
                    /\ update' = [update EXCEPT !.pc = "row", !.idx1 = @ + 1,
                                                !.outPtr1 = @ + 1, !.rows = @ + 1]
               ELSE /\ File' = IF sought.open
                               THEN [sought EXCEPT !.pos = @ + bytes, !.fail = TRUE]
                               ELSE sought
                    /\ update' = Ended(update, "error")
  /\ UNCHANGED <<namingVars, DataExtent, elementVars, headerVars, sliceVars, layoutVars,
                 handles, disk, memoryVars, AbortExecute>>

\* the caller asks the execution to stop
SetAbortExecute ==
  /\ update.pc \in {"slice", "row", "read"}
  /\ AbortExecute = 0
  /\ AbortExecute' = 1
  /\ update' = [update EXCEPT !.abortRows = update.rows]
  /\ UNCHANGED <<namingVars, InternalFileName, DataExtent, DataIncrements, elementVars,
                 headerVars, sliceVars, layoutVars, File, handles, disk, last,
                 memoryVars, data>>

SetMemoryBuffer(membuf) ==
  /\ MemoryBuffer' = membuf
  /\ last' = [Call("SetMemoryBuffer") EXCEPT !.same = (MemoryBuffer = membuf)]
  /\ UNCHANGED <<namingVars, InternalFileName, DataExtent, DataIncrements, elementVars,
                 headerVars, sliceVars, layoutVars, File, handles, disk,
                 MemoryBufferLength, AbortExecute, update, data>>

SetMemoryBufferLength(buflen) ==
  /\ MemoryBufferLength' = buflen
  /\ last' = [Call("SetMemoryBufferLength") EXCEPT !.same = (MemoryBufferLength = buflen)]
  /\ UNCHANGED <<namingVars, InternalFileName, DataExtent, DataIncrements, elementVars,
                 headerVars, sliceVars, layoutVars, File, handles, disk,
                 MemoryBuffer, AbortExecute, update, data>>

(***************************************************************************)
(* The read specification: a configured reader (naming, extent, row        *)
(* orientation, dimensionality, header size) and a disk whose files are    *)
(* made of a header of FileHeader bytes and of the payload of the          *)
(* configuration: one slice in dimensionality 2, the volume in 3.  Either  *)
(* the first file of each naming alone is on the disk, or all of them.     *)
(***************************************************************************)
ReadExtents ==
  {<<0, 1, y[1], y[2], z[1], z[2]>> : y \in RowRanges, z \in {<<0, 1>>, <<1, 2>>}}

\* the payload of a file of the configuration
Payload == NewIncrements[FileDimensionality + 1]

FirstPaths == {NameA, PrefixP \o <<".", "0">>, ListPath(0)}

AllPaths ==
  FirstPaths \cup {PrefixP \o <<".">> \o NatToStr(k) : k \in 0..2}
             \cup {ListPath(i) : i \in 0..(MaxListLen - 1)}

ReadDisk(paths, size) == [p \in paths |-> size]

InitRead ==
  /\ File = NoFile
  /\ DataScalarType = VTK_SHORT
  /\ NumberOfScalarComponents = 1
  /\ DataIncrements = <<1, 1, 1, 1>>
  /\ InternalFileName = NULL
  /\ FileNameSliceOffset = 0
  /\ FileNameSliceSpacing = 1
  /\ MemoryBuffer = 0
  /\ MemoryBufferLength = 0
  /\ NotExecuting
  /\ last = NoCall
  /\ DataExtent \in ReadExtents
  /\ \E naming \in SeekNamings :
        FileName = naming[1] /\ FilePrefix = naming[2] /\ FileNames = naming[3]
  /\ FilePattern = Str(DefaultPattern)
  /\ FileLowerLeft \in {0, 1}
  /\ FileDimensionality \in {2, 3}
  /\ \/ ManualHeaderSize = 0 /\ HeaderSize = 0
     \/ ManualHeaderSize = 1 /\ HeaderSize \in 0..MaxHeader
  /\ \E paths \in {FirstPaths, AllPaths}, header \in 0..MaxHeader :
        disk = ReadDisk(paths, header + Payload)

NextRead ==
  \/ ExecuteDataWithInformation
  \/ vtkImageReader2UpdateSlice
  \/ vtkImageReader2UpdateRow
  \/ vtkImageReader2UpdateRead
  \/ SetAbortExecute

SpecRead == InitRead /\ [][NextRead]_vars

(***************************************************************************)
(* The execution specification: a constructed reader, its naming setters,  *)
(* its scalar type, its memory buffer and the execution.  The setters are  *)
(* called between two executions.  The extent is the one of the            *)
(* constructor, a single row of a single pixel, and the disk holds the     *)
(* file a of that row.                                                     *)
(***************************************************************************)
MemoryBuffers == {0, 1}

MemoryBufferLengths == {0, 2}

ScalarTypes == {VTK_SHORT, 1}

ExecuteDisk == (NameA :> 2) @@ (ListPath(0) :> 2)

BetweenExecutions == update.pc \in {"idle", "done"}

InitExecute == Constructed /\ disk = ExecuteDisk

NextExecute ==
  \/ \E name \in {NULL, Str(NameA)} : BetweenExecutions /\ SetFileName(name)
  \/ \E prefix \in {Str(PrefixP)} : BetweenExecutions /\ SetFilePrefix(prefix)
  \/ \E pattern \in {NULL, Str(DefaultPattern)} : BetweenExecutions /\ SetFilePattern(pattern)
  \/ \E filenames \in {NullArray, StringArray(1)} : BetweenExecutions /\ SetFileNames(filenames)
  \/ \E type \in ScalarTypes : BetweenExecutions /\ SetDataScalarType(type)
  \/ \E membuf \in MemoryBuffers : BetweenExecutions /\ SetMemoryBuffer(membuf)
  \/ \E buflen \in MemoryBufferLengths : BetweenExecutions /\ SetMemoryBufferLength(buflen)
  \/ BetweenExecutions /\ ComputeDataIncrements
  \/ ExecuteDataWithInformation
  \/ vtkImageReader2UpdateSlice
  \/ vtkImageReader2UpdateRow
  \/ vtkImageReader2UpdateRead
  \/ SetAbortExecute

SpecExecute == InitExecute /\ [][NextExecute]_vars

(***************************************************************************)
(* The progress specification: executions of a reader of the file a over   *)
(* extents of one or three slices of 1 to MaxProgressRows rows, none of    *)
(* them aborted, on a disk where the file holds the volume.                *)
(***************************************************************************)
MaxProgressRows == 34

ProgressExtents ==
  {<<0, 0, 0, n - 1, 0, z>> : n \in 1..MaxProgressRows, z \in {0, 2}}

InitProgress ==
  /\ File = NoFile
  /\ DataScalarType = VTK_SHORT
  /\ NumberOfScalarComponents = 1
  /\ DataIncrements = <<1, 1, 1, 1>>
  /\ InternalFileName = NULL
  /\ FileNameSliceOffset = 0
  /\ FileNameSliceSpacing = 1
  /\ MemoryBuffer = 0
  /\ MemoryBufferLength = 0
  /\ NotExecuting
  /\ last = NoCall
  /\ DataExtent \in ProgressExtents
  /\ FileName = Str(NameA)
  /\ FilePrefix = NULL
  /\ FileNames = NullArray
  /\ FilePattern = Str(DefaultPattern)
  /\ FileLowerLeft \in {0, 1}
  /\ FileDimensionality = 3
  /\ ManualHeaderSize = 1
  /\ HeaderSize = 0
  /\ disk = ReadDisk({NameA}, Payload)

NextProgress ==
  \/ ExecuteDataWithInformation
  \/ vtkImageReader2UpdateSlice
  \/ vtkImageReader2UpdateRow
  \/ vtkImageReader2UpdateRead

SpecProgress == InitProgress /\ [][NextProgress]_vars

C2_AtMostOneStrategy ==
  /\ ~(FileName # NULL /\ FilePrefix # NULL)
  /\ ~(FileName # NULL /\ FileNames # NullArray)
  /\ ~(FilePrefix # NULL /\ FileNames # NullArray)

\* a file list has replaced a file name
C2_Witness ==
  /\ last.op = "SetFileNames"
  /\ last.preName # NULL
  /\ FileNames # NullArray

(***************************************************************************)
(* C3.  As claimed: SetFileNames with a list of N >= 1 paths leaves the Z  *)
(* bounds at 0 and N - 1 whatever they were; with no path it leaves them   *)
(* as they were; the X and Y bounds are as they were.                      *)
(***************************************************************************)
C3_AsClaimed ==
  last.op = "SetFileNames" /\ ~last.argNull =>
    /\ last.n >= 1 => (DataExtent[5] = 0 /\ DataExtent[6] = last.n - 1)
    /\ last.n = 0 => (DataExtent[5] = last.preExtent[5] /\ DataExtent[6] = last.preExtent[6])
    /\ \A a \in 1..4 : DataExtent[a] = last.preExtent[a]

(***************************************************************************)
(* C3 (amended).  SetFileNames with a list of N >= 1 paths that is not the *)
(* list object already stored leaves the Z bounds at 0 and N - 1 whatever  *)
(* they were; with a list of no path, or with the list object already      *)
(* stored, it leaves the Z bounds as they were; in every case the X and Y  *)
(* bounds are as they were.                                                *)
(***************************************************************************)
C3_ListForcesZ ==
  last.op = "SetFileNames" /\ ~last.argNull =>
    /\ (last.n >= 1 /\ ~last.same) => (DataExtent[5] = 0 /\ DataExtent[6] = last.n - 1)
    /\ (last.n = 0 \/ last.same) =>
          (DataExtent[5] = last.preExtent[5] /\ DataExtent[6] = last.preExtent[6])
    /\ \A a \in 1..4 : DataExtent[a] = last.preExtent[a]

\* a list of at least one path has moved both Z bounds
C3_Witness ==
  /\ last.op = "SetFileNames"
  /\ last.n >= 1
  /\ ~last.same
  /\ last.preExtent[5] # 0
  /\ last.preExtent[6] # last.n - 1
  /\ DataExtent[5] = 0
  /\ DataExtent[6] = last.n - 1

(***************************************************************************)
(* C4.  After ComputeDataIncrements, for a scalar type of the template     *)
(* macro: increments[0] is the byte width of the type times the number of  *)
(* components (2 bytes per component for VTK_SHORT), and increments[k] is  *)
(* increments[k-1] times max - min + 1 of axis k-1, for k in 1..3.         *)
(***************************************************************************)
C4_IncrementsChain ==
  (last.op = "ComputeDataIncrements" /\ DataScalarType \in TemplateTypes) =>
    /\ DataIncrements[1] = vtkImageReader2GetSize(DataScalarType) * NumberOfScalarComponents
    /\ DataScalarType = VTK_SHORT => DataIncrements[1] = 2 * NumberOfScalarComponents
    /\ \A k \in 1..3 :
          DataIncrements[k + 1] =
            DataIncrements[k] * (DataExtent[2 * k] - DataExtent[2 * k - 1] + 1)

\* increments of a volume of more than one sample along every axis
C4_Witness ==
  /\ last.op = "ComputeDataIncrements"
  /\ DataScalarType \in TemplateTypes
  /\ \A a \in 1..3 : DataExtent[2 * a] > DataExtent[2 * a - 1]
  /\ DataExtent[3] > 0
  /\ NumberOfScalarComponents > 1
  /\ DataIncrements[4] > DataIncrements[3]

(***************************************************************************)
(* C5.  With no file name and no file list, ComputeInternalFileName(slice) *)
(* formats the pattern with the number slice * FileNameSliceSpacing +      *)
(* FileNameSliceOffset: pattern "%s.%d" gives prefix, ".", number when a   *)
(* prefix is set and ".", number when none is; pattern "%d.r", without a   *)
(* prefix, gives number, ".r"; prefix "img", pattern "%s.%d", offset 100   *)
(* and spacing 1 give "img.100" for slice 0 and "img.103" for slice 3.     *)
(***************************************************************************)
C5_PatternSeriesName ==
  (/\ last.op = "ComputeInternalFileName"
   /\ FileName = NULL
   /\ FileNames = NullArray
   /\ FilePattern # NULL) =>
     LET number == last.idx * FileNameSliceSpacing + FileNameSliceOffset
     IN  /\ (FilePrefix # NULL /\ FilePattern.s = <<"%", "s", ".", "%", "d">>)
               => InternalFileName = Str(FilePrefix.s \o <<".">> \o IntToStr(number))
         /\ (FilePrefix = NULL /\ FilePattern.s = <<"%", "s", ".", "%", "d">>)
               => InternalFileName = Str(<<".">> \o IntToStr(number))
         /\ (FilePrefix = NULL /\ FilePattern.s = <<"%", "d", ".", "r">>)
               => InternalFileName = Str(IntToStr(number) \o <<".", "r">>)
         /\ (/\ FilePrefix = Str(<<"i", "m", "g">>)
             /\ FilePattern.s = <<"%", "s", ".", "%", "d">>
             /\ FileNameSliceOffset = 100
             /\ FileNameSliceSpacing = 1)
               => /\ last.idx = 0 => InternalFileName = Str(<<"i", "m", "g", ".", "1", "0", "0">>)
                  /\ last.idx = 3 => InternalFileName = Str(<<"i", "m", "g", ".", "1", "0", "3">>)

\* slice 3 of the series img, offset 100, spacing 1
C5_Witness ==
  /\ last.op = "ComputeInternalFileName"
  /\ last.idx = 3
  /\ FileName = NULL
  /\ FileNames = NullArray
  /\ FilePrefix = Str(<<"i", "m", "g">>)
  /\ FileNameSliceOffset = 100
  /\ FileNameSliceSpacing = 1
  /\ InternalFileName = Str(<<"i", "m", "g", ".", "1", "0", "3">>)

(***************************************************************************)
(* C6.  With the increments of the extent, for every i and k of the extent *)
(* and every header size, the offset of row yMin of an upper-left file is  *)
(* the offset of row yMax of a lower-left file.                            *)
(***************************************************************************)
C6_MirrorRows ==
  DataIncrements = NewIncrements =>
    \A i \in DataExtent[1]..DataExtent[2], k \in DataExtent[5]..DataExtent[6],
       header \in 0..MaxHeader :
      SeekOffset(i, DataExtent[3], k, DataExtent, DataIncrements, 0,
                 FileDimensionality, header)
        = SeekOffset(i, DataExtent[4], k, DataExtent, DataIncrements, 1,
                     FileDimensionality, header)

(***************************************************************************)
(* C7.  SeekFile(i, j, k), (i, j, k) inside the extent and a file open,    *)
(* seeks to (i - xMin) * increments[0], plus (j - yMin) * increments[1]    *)
(* for a lower-left file or (yMax - yMin - j) * increments[1] for an       *)
(* upper-left one, plus (k - zMin) * increments[2] for dimensionality 3    *)
(* and nothing for dimensionality 2, plus the header size of slice k,      *)
(* which is the one set by hand when one was set; the file is left at that *)
(* position when it is not negative.                                       *)
(***************************************************************************)
C7_SeekOffsetTerms ==
  (last.op = "SeekFile" /\ last.seeked) =>
    /\ last.pos =
           (last.i - DataExtent[1]) * last.preIncrements[1]
         + (IF FileLowerLeft = 1
            THEN (last.j - DataExtent[3]) * last.preIncrements[2]
            ELSE (DataExtent[4] - DataExtent[3] - last.j) * last.preIncrements[2])
         + (IF FileDimensionality = 3
            THEN (last.k - DataExtent[5]) * last.preIncrements[3]
            ELSE 0)
         + last.result
    /\ last.manual => last.result = HeaderSize
    /\ (last.pos >= 0 /\ ~File.fail) => File.pos = last.pos

\* a seek into the second slice of an upper-left volume file, past the
\* first sample of a row, and one into the second slice file of a series
C7_Witness ==
  /\ last.op = "SeekFile"
  /\ last.seeked
  /\ FileLowerLeft = 0
  /\ FileDimensionality = 3
  /\ last.i > DataExtent[1]
  /\ last.j < DataExtent[4]
  /\ last.k > DataExtent[5]
  /\ DataExtent[3] > 0
  /\ last.preIncrements = NewIncrements
  /\ File.pos = last.pos
  /\ last.pos > last.result

(***************************************************************************)
(* C8.  On a reader with a naming strategy in force, once SetHeaderSize    *)
(* has been called, GetHeaderSize(idx) returns the size that was set, for  *)
(* every idx and whatever was set since.                                   *)
(***************************************************************************)
C8_ManualHeaderSticky ==
  (/\ last.op = "GetHeaderSize"
   /\ last.manual
   /\ (FileName # NULL \/ FileNames # NullArray \/ FilePattern # NULL)) =>
     last.result = HeaderSize

(***************************************************************************)
(* C9.  When no header size was set by hand and the stat of the resolved   *)
(* file succeeds, GetHeaderSize(idx) returns the larger of 0 and the file  *)
(* size minus increments[FileDimensionality].                              *)
(***************************************************************************)
C9_HeaderNeverNegative ==
  (last.op = "GetHeaderSize" /\ ~last.manual /\ last.statOk) =>
    last.result = Max(0, last.size - DataIncrements[FileDimensionality + 1])

(***************************************************************************)
(* C10.  When no header size was set by hand and the stat of the resolved  *)
(* file fails, SeekFile does not seek the open file.                       *)
(***************************************************************************)
C10_NoSeekAfterFailedProbe ==
  ~(/\ last.op = "SeekFile"
    /\ last.guard
    /\ ~last.manual
    /\ ~last.statOk
    /\ last.seeked)

(***************************************************************************)
(* C18.  A seek of the open file whose computed offset is negative is      *)
(* rejected: the stream is left failed and the call reports it, the        *)
(* position being neither moved to the start of the file nor to a wrapped  *)
(* offset.                                                                 *)
(***************************************************************************)
C18_NegativeOffsetRejected ==
  (last.op = "SeekFile" /\ last.seeked /\ last.pos < 0) =>
    (File.open /\ File.fail /\ last.error /\ File.pos # last.pos)

\* a row above yMax - yMin of a file read from its upper-left row
C18_Witness ==
  /\ last.op = "SeekFile"
  /\ last.seeked
  /\ last.pos < 0
  /\ FileLowerLeft = 0
  /\ last.j > DataExtent[4] - DataExtent[3]
  /\ File.fail

(***************************************************************************)
(* C19.  With a file list, resolving a slice index below the length of the *)
(* list gives the entry of the list at that index, and resolving an index  *)
(* at or above the length gives no internal file name.                     *)
(***************************************************************************)
C19_ListIndexChecked ==
  (last.op = "ComputeInternalFileName" /\ FileNames # NullArray) =>
    IF last.idx < GetNumberOfValues(FileNames)
    THEN InternalFileName = Str(FileNames.vals[last.idx + 1])
    ELSE InternalFileName = NULL

(***************************************************************************)
(* C11.  On a file made of a header and of exactly the payload of the      *)
(* configuration, an execution that probes the header size seeks every row *)
(* where an execution with the size of that header set by hand seeks it:   *)
(* at the offset of the row computed with the header of the open file.     *)
(***************************************************************************)
C11_AutoSeeksAsManual ==
  (/\ update.pc \in {"row", "done"}
   /\ last.op = "SeekFile"
   /\ ManualHeaderSize = 0
   /\ last.seeked) =>
    last.pos = SeekOffset(last.i, last.j, last.k, DataExtent, DataIncrements,
                          FileLowerLeft, FileDimensionality,
                          disk[File.path] - Payload)

(***************************************************************************)
(* C13.  When an execution has ended, whether it has read all its rows,    *)
(* failed to open a file, read a short row or been aborted, no stream is   *)
(* open.                                                                   *)
(***************************************************************************)
C13_ClosedWhenReadEnds ==
  update.pc = "done" => (~File.open /\ handles = 0)

(***************************************************************************)
(* C14.  At most one stream is open in every state, and it is the one of   *)
(* File: OpenFile does not create a stream while another one is open.      *)
(***************************************************************************)
C14_AtMostOneHandle ==
  /\ handles \in {0, 1}
  /\ File.open <=> handles = 1

\* the file of a second slice has been opened while the one of the first
\* was open
C14_Witness ==
  /\ update.opened >= 2
  /\ File.open
  /\ handles = 1

(***************************************************************************)
(* C15.  An execution during which AbortExecute was raised after r rows    *)
(* ends neither as a completed one nor as a failed one, and it has read    *)
(* the first r rows of the output, slice after slice, and no other row.    *)
(***************************************************************************)
C15_CancelledRead ==
  (update.pc = "done" /\ update.abortRows >= 0) =>
    /\ update.outcome \notin {"returned", "error"}
    /\ update.rows = update.abortRows
    /\ \A r \in DOMAIN data : (data[r] # Untouched) <=> (r <= update.abortRows)

(***************************************************************************)
(* C12.  An execution fails its first test, before a file is resolved or   *)
(* opened, exactly when none of the three naming strategies is configured: *)
(* no file name, no prefix of a series and no file list.                   *)
(***************************************************************************)
C12_NoIdentityExactlyWhenUnnamed ==
  last.op = "ExecuteDataWithInformation" =>
    /\ update.validated <=>
         (FileName # NULL \/ FilePrefix # NULL \/ FileNames # NullArray)
    /\ ~update.validated =>
         (update.pc = "done" /\ update.outcome = "error" /\ update.opened = 0)

(***************************************************************************)
(* C16.  An execution emits at most 50 progress events: target being the   *)
(* number of rows of the extent divided by 50, rounded down, plus one, an  *)
(* event is emitted only before a row whose count is a multiple of target. *)
(***************************************************************************)
C16_AtMostFiftySignals ==
  update.pc \notin {"idle"} =>
    /\ update.validated => update.target = RowsOf(DataExtent) \div 50 + 1
    /\ \A c \in update.signals : c % (RowsOf(DataExtent) \div 50 + 1) = 0
    /\ Cardinality(update.signals) <= 50

\* a completed execution of 99 rows has emitted 50 events, one row in two
C16_Witness ==
  /\ update.pc = "done"
  /\ update.outcome = "returned"
  /\ update.rows = 99
  /\ update.target = 2
  /\ Cardinality(update.signals) = 50

(***************************************************************************)
(* C17.  An execution of a reader whose memory buffer and buffer length    *)
(* are set opens no file.                                                  *)
(***************************************************************************)
C17_MemoryBufferOpensNoFile ==
  (/\ last.op \in {"ExecuteDataWithInformation", "vtkImageReader2Update", "SeekFile"}
   /\ MemoryBuffer # 0
   /\ MemoryBufferLength > 0) =>
    update.opened = 0

(***************************************************************************)
(* C20.  With a scalar type that has no case, ComputeDataIncrements        *)
(* reports an error and leaves the increments as they were, and an         *)
(* execution ends with an error, having opened no file and written no row. *)
(***************************************************************************)
C20_UnsupportedScalarType ==
  /\ (last.op = "ComputeDataIncrements" /\ DataScalarType \notin TemplateTypes) =>
        (last.error /\ DataIncrements = last.preIncrements)
  /\ (last.op = "ExecuteDataWithInformation" /\ DataScalarType \notin TemplateTypes) =>
        /\ last.error
        /\ DataIncrements = last.preIncrements
        /\ update.pc = "done"
        /\ update.outcome = "error"
        /\ update.opened = 0
        /\ \A r \in DOMAIN data : data[r] = Untouched

\* an execution with a named file and such a type, on increments that an
\* earlier computation has stored
C20_Witness ==
  /\ last.op = "ExecuteDataWithInformation"
  /\ DataScalarType \notin TemplateTypes
  /\ FileName # NULL
  /\ update.validated
  /\ update.outcome = "error"
  /\ DataIncrements = <<2, 2, 2, 2>>

(***************************************************************************)
(* C21.  In every state of a reader whose scalar type has a case, from the *)
(* constructed one on, the stored increments are the ones derived from the *)
(* extent, the scalar type and the number of components of that state.     *)
(***************************************************************************)
C21_IncrementsNeverStale ==
  DataScalarType \in TemplateTypes =>
    DataIncrements = ComputedIncrements(DataScalarType, NumberOfScalarComponents,
                                        DataExtent, DataIncrements)

(***************************************************************************)
(* C22.  In an execution that probes the header size, the file that        *)
(* SeekFile has probed for the row is the open one: the internal file name *)
(* the probe leaves behind is the path of the stream that is sought.       *)
(***************************************************************************)
C22_ProbeOnOpenFile ==
  (/\ update.pc \in {"row", "done"}
   /\ last.op = "SeekFile"
   /\ ManualHeaderSize = 0
   /\ last.seeked) =>
    InternalFileName = Str(File.path)

(***************************************************************************)
(* C23.  In an execution of a file of dimensionality 2, once the loop over *)
(* the rows of a slice has seen AbortExecute (the slice has fewer rows     *)
(* read than it holds), the update neither opens the file of a later slice *)
(* nor fails on it.                                                        *)
(***************************************************************************)
C23_NoOpenAfterCancel ==
  ~(/\ FileDimensionality = 2
    /\ update.abortRows >= 0
    /\ update.rows < (update.idx2 - update.outExtent[5]) * AxisSize(update.outExtent, 2)
    /\ last.op = "vtkImageReader2Update"
    /\ \/ update.pc = "row"
       \/ update.pc = "done" /\ update.outcome = "error")

====
